---- MODULE Spec2Model ----
(***************************************************************************)
(* Model of send_rss_to_telegram.py: one poll-and-deliver pass             *)
(* (check_feed) over a feed, a cache file on disk and the Telegram         *)
(* endpoint.  Entry ids are modelled as the naturals 1..MaxEntries, the    *)
(* blank id "" as 0.  A run of check_feed is split at its network calls:   *)
(* Start (load_cache, GET, parse, diff), SendEntry (one iteration of the   *)
(* delivery loop) and Finish (the code after the loop).                    *)
(***************************************************************************)
EXTENDS Integers, Sequences, FiniteSets, TLC

\* Bound: number of entries the feed ever publishes.
MaxEntries == 2

\* The blank entry id "" of the empty cache record.
NoId == 0

Ids == 1..MaxEntries

\* A response header that is not present.
Absent == "absent"

\* Values the server may put in the etag / last-modified headers.
EtagHeaders == {Absent, "e1", "e2"}

ModifiedHeaders == {Absent, "m1"}

\* Status codes of the feed response: ok, not modified, server error.
Statuses == {200, 304, 500}

\* BYPASS_CACHE_CHECK (line 20)
BYPASS_CACHE_CHECK == TRUE

VARIABLES
  feed,         \* the feed the server publishes, newest entry first
  published,    \* number of entries published so far
  file,         \* content of feed_cache.json
  pc,           \* position of check_feed: "idle" or "loop"
  cache,        \* check_feed's local dict `cache`
  new_entries,  \* check_feed's local list `new_entries`
  idx,          \* position in reversed(new_entries), 1-based
  delivered,    \* history: ids whose send_telegram_message call returned
  run,          \* history: record of the current / last finished run
  prev,         \* history: record of the run before `run`
  config,       \* the three environment settings the module reads at import
  send,         \* one call of send_telegram_message, taken alone
  store,        \* save_cache / load_cache taken alone: the call in progress
  soup,         \* the sanitizing of one description, taken alone
  req           \* the building of the request headers, taken alone

\* The state of a run of the program.
mainVars == <<feed, published, file, pc, cache, new_entries, idx, delivered, run, prev,
              config>>

vars == <<feed, published, file, pc, cache, new_entries, idx, delivered, run, prev,
          config, send, store, soup, req>>

\* The three settings of lines 8-10.
Settings == {"TELEGRAM_BOT_TOKEN", "RSS_FEED_URL", "TELEGRAM_CHAT_ID"}

\* os.getenv of a variable that is not set (None).
Unset == "<unset>"

\* What a setting can hold: nothing, the empty string, a value.
SettingValues == {Unset, "", "x"}

\* Mutant of Truthy: only an unset variable counts as missing.
Truthy_NotNone(v) == v # Unset

\* Python truth of a setting: None and "" are false.
Truthy(v) == v \notin {Unset, ""}

\* Line 13, negated: every setting is present.
ConfigOk(cfg) ==
  Truthy(cfg["TELEGRAM_BOT_TOKEN"]) /\ Truthy(cfg["RSS_FEED_URL"])
    /\ Truthy(cfg["TELEGRAM_CHAT_ID"])

\* A complete configuration.
GoodConfig == [s \in Settings |-> "x"]

\* The three keys of the cache record (lines 33, 36).
CacheKeys == {"etag", "modified", "last_entry_id"}

\* A key of the dict: one of the three record keys.
RecordKey(name) == [key |-> name, id |-> NoId]

\* A key of the dict: the entry id of cache[entry_id] = True (line 144).
EntryKey(e) == [key |-> "entry", id |-> e]

\* dict[k] = value, on the list of keys: a new key goes last, a key the
\* dict holds keeps its place.
Insert(keys, k) == IF \E i \in 1..Len(keys) : keys[i] = k THEN keys ELSE Append(keys, k)

\* A dict as check_feed holds it: `keys` are the keys it holds, in the order
\* they were inserted, the record keys and the entry ids alike; a field
\* whose key is absent holds its blank value.
\* EmptyCache is the dict load_cache returns when there is no usable file.
EmptyCache == [etag |-> "", modified |-> "", last_entry_id |-> NoId,
               keys |-> <<RecordKey("etag"), RecordKey("modified"),
                          RecordKey("last_entry_id")>>]

\* The dict {} : no key at all.
EmptyDict == [EmptyCache EXCEPT !.keys = <<>>]

\* name in dict, for a record key.
HasKey(c, name) == \E i \in 1..Len(c.keys) : c.keys[i] = RecordKey(name)

\* The file feed_cache.json: whether it exists, and its text as the lines
\* json.dump(cache, file, indent=4) writes: "{", one line per member, "}".
\* A line is its key, and its value as an entry id or a string.
Line(key, id, str) == [key |-> key, id |-> id, str |-> str]

OpenBrace == Line("{", NoId, "")

CloseBrace == Line("}", NoId, "")

\* No cache file.
Missing == [exists |-> FALSE, text |-> <<>>]

\* A cache file that is not JSON: the empty file open(path, 'w') leaves.
Invalid == [exists |-> TRUE, text |-> <<>>]

\* The line json.dump writes for the key k of the dict c.
MemberLine(c, k) ==
  IF k.key = "etag" THEN Line("etag", NoId, c.etag)
  ELSE IF k.key = "modified" THEN Line("modified", NoId, c.modified)
  ELSE IF k.key = "last_entry_id" THEN Line("last_entry_id", c.last_entry_id, "")
  ELSE Line("entry", k.id, "true")

\* json.dump (line 41): every key the dict holds, with its value, in the
\* dict's insertion order.
json_dump(c) ==
  <<OpenBrace>> \o [i \in 1..Len(c.keys) |-> MemberLine(c, c.keys[i])] \o <<CloseBrace>>

\* Whether json.load accepts the text: an object from "{" to "}".  Any
\* other text raises json.JSONDecodeError.
IsJson(text) ==
  /\ Len(text) >= 2
  /\ text[1] = OpenBrace
  /\ text[Len(text)] = CloseBrace
  /\ \A i \in 2..(Len(text) - 1) : text[i].key \notin {"{", "}"}

\* Mutant of SetMember: the validator is looked up as "last_modified".
SetMember_OtherName(d, l) ==
  IF l.key = "etag" THEN [d EXCEPT !.etag = l.str, !.keys = Insert(@, RecordKey("etag"))]
  ELSE IF l.key = "last_modified"
    THEN [d EXCEPT !.modified = l.str, !.keys = Insert(@, RecordKey("modified"))]
  ELSE IF l.key = "last_entry_id"
    THEN [d EXCEPT !.last_entry_id = l.id, !.keys = Insert(@, RecordKey("last_entry_id"))]
  ELSE IF l.key = "entry" THEN [d EXCEPT !.keys = Insert(@, EntryKey(l.id))]
  ELSE d

\* The dict d after the member of one line is stored in it; the keys come
\* in the order of the lines.
SetMember(d, l) ==
  IF l.key = "etag" THEN [d EXCEPT !.etag = l.str, !.keys = Insert(@, RecordKey("etag"))]
  ELSE IF l.key = "modified"
    THEN [d EXCEPT !.modified = l.str, !.keys = Insert(@, RecordKey("modified"))]
  ELSE IF l.key = "last_entry_id"
    THEN [d EXCEPT !.last_entry_id = l.id, !.keys = Insert(@, RecordKey("last_entry_id"))]
  ELSE IF l.key = "entry" THEN [d EXCEPT !.keys = Insert(@, EntryKey(l.id))]
  ELSE d

RECURSIVE ParseMembers(_, _)
\* The dict d after the members of the lines are stored in it, in order.
ParseMembers(lines, d) ==
  IF lines = <<>> THEN d ELSE ParseMembers(Tail(lines), SetMember(d, Head(lines)))

\* json.load (line 27) of a text json.load accepts: the dict of its members.
json_load(text) == ParseMembers(SubSeq(text, 2, Len(text) - 1), EmptyDict)

\* A cache file of bytes that are not text in the default encoding.
Undecodable == [exists |-> TRUE, text |-> <<Line("<bytes>", NoId, "")>>]

\* Lines 26-27: reading such a file raises UnicodeDecodeError, which the
\* except clause of line 31 does not catch.
LoadRaises(f) == f.exists /\ \E i \in 1..Len(f.text) : f.text[i].key = "<bytes>"

\* load_cache, when it returns: the parsed file, or the empty record for a
\* missing file or invalid JSON.
load_cache(f) ==
  IF f.exists
    THEN IF IsJson(f.text) THEN json_load(f.text) ELSE EmptyCache
    ELSE EmptyCache

\* save_cache: the file holds the dumped dict.
save_cache(c) == [exists |-> TRUE, text |-> json_dump(c)]

\* Lines 90-94: with the cache check on, check_feed reads cache["etag"] and
\* cache["modified"]; a key that is absent raises KeyError.
HeaderReadRaises(c) == ~BYPASS_CACHE_CHECK /\ ~(HasKey(c, "etag") /\ HasKey(c, "modified"))

\* Line 115: cache["last_entry_id"] is read once per parsed entry.
DiffReadRaises(c, entries) == entries # <<>> /\ ~HasKey(c, "last_entry_id")

RECURSIVE reversed(_)
\* reversed(seq)
reversed(s) == IF s = <<>> THEN <<>> ELSE Append(reversed(Tail(s)), Head(s))

\* entry_id != cache["last_entry_id"]
IsNew(entry_id, last) == entry_id # last

\* Lines 109-116: the entries of the parsed feed that differ from the
\* last-seen id, in feed order.
NewEntries(entries, last) == SelectSeq(entries, LAMBDA e : IsNew(e, last))

\* Lines 104-107: take over the validators the response carries, the etag
\* first.
UpdateValidators(c, et, lm) ==
  LET k1 == IF et # Absent THEN Insert(c.keys, RecordKey("etag")) ELSE c.keys
  IN  [c EXCEPT !.etag = IF et # Absent THEN et ELSE @,
                !.modified = IF lm # Absent THEN lm ELSE @,
                !.keys = IF lm # Absent THEN Insert(k1, RecordKey("modified")) ELSE k1]

\* Mutant of NotModified: the 304 check is missing.
NotModified_Never(status) == FALSE

\* Line 97: the not-modified short circuit.
NotModified(status) == status = 304

\* Line 144: cache[entry_id] = True
MarkProcessed(c, entry_id) == [c EXCEPT !.keys = Insert(@, EntryKey(entry_id))]

\* Lines 151-152: cache["last_entry_id"] = id of new_entries[-1]
LastEntryId(ne) == ne[Len(ne)]

\* Lines 151-152 on the dict.
SetLastEntryId(c, ne) ==
  [c EXCEPT !.last_entry_id = LastEntryId(ne),
            !.keys = Insert(@, RecordKey("last_entry_id"))]

\* The body a response carries: a 200 carries the feed; any other response
\* carries either nothing or a feed document.
Bodies(status) == IF status = 200 THEN {feed} ELSE {<<>>, feed}

\* Mutant of RequestHeaders: the bypass flag is not looked at.
RequestHeaders_AlwaysConditional(c, bypass) ==
  [if_none_match |-> IF c.etag # "" THEN c.etag ELSE Absent,
   if_modified_since |-> IF c.modified # "" THEN c.modified ELSE Absent]

\* Lines 87-94: the headers of the feed request; `bypass` is the value of
\* BYPASS_CACHE_CHECK.  A header that is not sent is Absent.
RequestHeaders(c, bypass) ==
  [if_none_match |-> IF ~bypass /\ c.etag # "" THEN c.etag ELSE Absent,
   if_modified_since |-> IF ~bypass /\ c.modified # "" THEN c.modified ELSE Absent]

\* The record of a run: the response it got (status 0: no request was made),
\* the headers it sent, what it loaded, sent and wrote, and the error that
\* ended it.
NoRun == [status |-> 0, entries |-> <<>>, loaded |-> NoId, startFile |-> Missing,
          etag |-> Absent, modified |-> Absent, parsed |-> FALSE,
          sent |-> <<>>, ok |-> <<>>, writes |-> 0, raised |-> "",
          headers |-> RequestHeaders(EmptyCache, TRUE)]

\* The entries of the run whose send raised.
FailedSends(r) == {r.sent[i] : i \in {j \in 1..Len(r.sent) : ~r.ok[j]}}

\* What a later run's claims need of the run before it: its status, and of
\* a run that got a 200 the entries it parsed and those whose send raised.
Summary(r) ==
  IF r.status = 200
    THEN [status |-> r.status, entries |-> r.entries, failed |-> FailedSends(r)]
    ELSE [status |-> r.status, entries |-> <<>>, failed |-> {}]

\* MAX_MESSAGE_LENGTH (line 48)
MAX_MESSAGE_LENGTH == 4096

\* Bound: the longest text sent has MaxChunks full chunks.
MaxChunks == 3

\* A text is modelled by its length; a part of it by the positions
\* from..to-1 it holds (message[from:to]).
Lengths == 0..(MaxChunks * MAX_MESSAGE_LENGTH)

\* Status codes the Telegram endpoint answers a POST with.
PostStatuses == {200, 400}

\* A part of the program that is taken alone in a specification of its own
\* (send_telegram_message, the cache store, the sanitizing, the request
\* headers) is off in every other specification.
Off == [pc |-> "off"]

\* A call of send_telegram_message before it starts.
SendIdle == [len |-> 0, i |-> 0, posts |-> <<>>, statuses |-> <<>>, pc |-> "off"]

\* Line 51: the text is longer than one message.
NeedsSplit(len) == len > MAX_MESSAGE_LENGTH

\* Line 54: message[i:i+MAX_MESSAGE_LENGTH]; the slice ends with the text.
Chunk(len, i) ==
  [from |-> i,
   to |-> IF i + MAX_MESSAGE_LENGTH < len THEN i + MAX_MESSAGE_LENGTH ELSE len]

\* Mutant of NextOffset: consecutive chunks share a character.
NextOffset_Overlap(i) == i + MAX_MESSAGE_LENGTH - 1

\* Line 53: the step of range(0, len(message), MAX_MESSAGE_LENGTH).
NextOffset(i) == i + MAX_MESSAGE_LENGTH

\* Mutant of Failed: the status of the response is not looked at.
Failed_Never(status) == FALSE

\* Lines 66 and 79: response.status_code != 200
Failed(status) == status # 200

\* The orders in which entry ids can have been added to the dict: the
\* lists of distinct ids.
MarkOrders ==
  {s \in UNION {[1..n -> Ids] : n \in 0..MaxEntries} :
     \A i, j \in 1..Len(s) : i # j => s[i] # s[j]}

\* The records check_feed saves: the three keys, and after them any
\* entry-id keys in the order the loop added them.
ValidRecords ==
  {[etag |-> e, modified |-> m, last_entry_id |-> l,
    keys |-> EmptyCache.keys \o [i \in 1..Len(s) |-> EntryKey(s[i])]] :
     e \in {""} \cup (EtagHeaders \ {Absent}),
     m \in {""} \cup (ModifiedHeaders \ {Absent}),
     l \in {NoId} \cup Ids,
     s \in MarkOrders}

\* Cache files a call may find: none, an empty one, one of other bytes, the
\* documents {} and {"etag": .., "modified": ..} of another writer, and the
\* saved records without entry-id keys.
InitialFiles ==
  {Missing, Invalid, Undecodable, save_cache(EmptyDict),
   save_cache([EmptyCache EXCEPT !.keys = <<RecordKey("etag"), RecordKey("modified")>>])}
    \cup {save_cache(r) : r \in {v \in ValidRecords : v.keys = EmptyCache.keys}}

\* The cache store before a call.
StoreIdle == [pc |-> "off", pending |-> EmptyCache, old |-> Missing, from |-> Missing,
              saved |-> FALSE, crashed |-> FALSE, raised |-> ""]

\* The request before its headers are built.
ReqIdle == [pc |-> "off", bypass |-> BYPASS_CACHE_CHECK,
            headers |-> RequestHeaders(EmptyCache, TRUE)]

\* Bound: number of nodes (elements and strings) of a description.
MaxNodes == 4

\* A string of the document (a NavigableString) as a node tag.
Text == "#text"

\* Tags of the descriptions looked at: two allowed ones and one that is not.
Tags == {"b", "a", "p", Text}

\* supported_tags (line 131)
supported_tags == {"b", "i", "a"}

\* Python's None: the name of a tag that was decomposed, the description of
\* an entry that has none.
None == "None"

\* What entry.get('content_html', entry.get('description')) gives (line
\* 127): None, the empty string, or a string that is not empty.
Descriptions == {None, "", "html"}

\* Line 129: `if description:`, the Python truth of the string.
HasDescription(d) == d \notin {None, ""}

\* The description and its parse: node i has tag[i] and parent[i] (0 is the
\* soup itself); nodes are numbered in document order.  alive are the nodes
\* still in the tree, list the result of find_all(), k the position in it,
\* out the serialized tree.
SoupIdle == [pc |-> "off", description |-> None, tag |-> <<>>, parent |-> <<>>,
             alive |-> {}, list |-> <<>>, k |-> 1, out |-> <<>>]

RECURSIVE Ancestors(_, _)
\* The proper ancestors of node i, the soup left out.
Ancestors(parent, i) ==
  IF parent[i] = 0 THEN {} ELSE {parent[i]} \cup Ancestors(parent, parent[i])

\* Node n with all its descendants.
Subtree(parent, n) == {n} \cup {j \in 1..Len(parent) : n \in Ancestors(parent, j)}

\* soup.find_all() (line 132): every element in the tree, in document order.
find_all(s) ==
  SelectSeq([i \in 1..Len(s.tag) |-> i], LAMBDA i : i \in s.alive /\ s.tag[i] # Text)

\* tag.name (line 133); a decomposed tag has lost its name.
TagName(s, n) == IF n \in s.alive THEN s.tag[n] ELSE None

\* Mutant of decompose: the element is unwrapped, its content stays.
decompose_Unwrap(s, n) == [s EXCEPT !.alive = @ \ {n}]

\* tag.decompose() (line 134): the element and everything in it leave the tree.
decompose(s, n) == [s EXCEPT !.alive = @ \ Subtree(s.parent, n)]

\* A piece of the serialized document.
Token(kind, tag, node) == [kind |-> kind, tag |-> tag, node |-> node]

\* The nearest ancestor of node j that is in the tree, 0 when there is none.
TreeParent(s, j) ==
  LET as == Ancestors(s.parent, j) \cap s.alive
  IN  IF as = {} THEN 0 ELSE CHOOSE a \in as : \A b \in as : b <= a

RECURSIVE Render(_, _, _)
\* The serialized children of node p from node `from` on, in document order.
Render(s, p, from) ==
  LET cs == {j \in from..Len(s.tag) : j \in s.alive /\ TreeParent(s, j) = p}
  IN  IF cs = {} THEN <<>>
      ELSE LET j == CHOOSE x \in cs : \A y \in cs : x <= y
           IN  (IF s.tag[j] = Text
                  THEN <<Token("text", Text, j)>>
                  ELSE <<Token("open", s.tag[j], j)>> \o Render(s, j, j + 1)
                         \o <<Token("close", s.tag[j], j)>>)
               \o Render(s, p, j + 1)

\* soup.prettify() (line 135): the tree as markup; the white space prettify
\* adds is left out.
prettify(s) == Render(s, 0, 1)

\* Line 137: the text sent when there is no description.
NoDescription == <<Token("text", Text, 0)>>

\* No run of the program has started.
RunIdle ==
  /\ feed = <<>>
  /\ published = 0
  /\ pc = "idle"
  /\ new_entries = <<>>
  /\ idx = 1
  /\ delivered = {}
  /\ run = NoRun
  /\ prev = Summary(NoRun)

\* The program is not running: nothing published, no cache file.
MainIdle ==
  /\ RunIdle
  /\ file = Missing
  /\ cache = EmptyCache

Init ==
  /\ config \in [Settings -> SettingValues]
  /\ send = Off
  /\ store = Off
  /\ soup = Off
  /\ req = Off
  /\ feed = <<>>
  /\ published = 0
  /\ file = Missing
  /\ pc = "idle"
  /\ cache = EmptyCache
  /\ new_entries = <<>>
  /\ idx = 1
  /\ delivered = {}
  /\ run = NoRun
  /\ prev = Summary(NoRun)

\* The site publishes one more entry, at the head of the feed.
Publish ==
  /\ pc = "idle"
  /\ published < MaxEntries
  /\ published' = published + 1
  /\ feed' = <<published + 1>> \o feed
  /\ UNCHANGED <<file, pc, cache, new_entries, idx, delivered, run, prev>>
  /\ UNCHANGED <<config, send, store, soup, req>>

\* Lines 8-14: a process started with a setting missing raises ValueError at
\* import, before main is called.
ConfigError ==
  /\ pc = "idle"
  /\ ~ConfigOk(config)
  /\ prev' = Summary(run)
  /\ run' = [NoRun EXCEPT !.startFile = file, !.raised = "ValueError"]
  /\ UNCHANGED <<feed, published, file, pc, cache, new_entries, idx, delivered>>
  /\ UNCHANGED <<config, send, store, soup, req>>

\* check_feed, lines 85-120: load the cache, fetch, parse, diff.  A KeyError
\* on a read of the loaded dict, or an error load_cache lets through, ends
\* the run in main's except clause.
Start ==
  /\ pc = "idle"
  /\ ConfigOk(config)
  /\ prev' = Summary(run)
  /\ IF LoadRaises(file)
       THEN /\ run' = [NoRun EXCEPT !.startFile = file, !.raised = "UnicodeDecodeError"]
            /\ UNCHANGED <<pc, cache, new_entries, idx>>
       ELSE \E c0 \in {load_cache(file)} :
         IF HeaderReadRaises(c0)
           THEN /\ run' = [NoRun EXCEPT !.startFile = file, !.raised = "KeyError"]
                /\ UNCHANGED <<pc, cache, new_entries, idx>>
           ELSE \E status \in Statuses, et \in EtagHeaders, lm \in ModifiedHeaders :
                  \E body \in Bodies(status) :
                    LET c1 == UpdateValidators(c0, et, lm)
                        ne == NewEntries(body, c1.last_entry_id)
                        r0 == [NoRun EXCEPT
                                 !.status = status, !.entries = body,
                                 !.loaded = c0.last_entry_id, !.startFile = file,
                                 !.etag = et, !.modified = lm,
                                 !.headers = RequestHeaders(c0, BYPASS_CACHE_CHECK)]
                    IN  IF NotModified(status)
                          THEN /\ run' = r0
                               /\ UNCHANGED <<pc, cache, new_entries, idx>>
                          ELSE IF DiffReadRaises(c1, body)
                          THEN /\ run' = [r0 EXCEPT !.parsed = TRUE, !.raised = "KeyError"]
                               /\ UNCHANGED <<pc, cache, new_entries, idx>>
                          ELSE IF ne = <<>>
                          THEN /\ run' = [r0 EXCEPT !.parsed = TRUE]
                               /\ UNCHANGED <<pc, cache, new_entries, idx>>
                          ELSE /\ run' = [r0 EXCEPT !.parsed = TRUE]
                               /\ pc' = "loop"
                               /\ cache' = c1
                               /\ new_entries' = ne
                               /\ idx' = 1
  /\ UNCHANGED <<feed, published, file, delivered>>
  /\ UNCHANGED <<config, send, store, soup, req>>

\* check_feed, lines 122-147: one iteration of the delivery loop.  Lines
\* 123-139 are outside the try: `entry.title` (line 125) raises
\* AttributeError for an entry that was parsed without a title, and the
\* exception leaves check_feed for main's except clause, the entries that
\* follow unsent and lines 149-153 not run.  With a title the message is
\* built and the send either returns (ok) or raises; the except clause of
\* line 146 prints and the loop goes on.
SendEntry ==
  /\ pc = "loop"
  /\ idx <= Len(new_entries)
  /\ \E has_title \in BOOLEAN :
       IF ~has_title
         THEN /\ run' = [run EXCEPT !.raised = "AttributeError"]
              /\ pc' = "idle"
              /\ cache' = EmptyCache
              /\ new_entries' = <<>>
              /\ idx' = 1
              /\ UNCHANGED <<file, delivered>>
         ELSE \E ok \in BOOLEAN :
                LET entry_id == reversed(new_entries)[idx]
                    c1 == MarkProcessed(cache, entry_id)
                IN  /\ run' = [run EXCEPT !.sent = Append(@, entry_id),
                                          !.ok = Append(@, ok),
                                          !.writes = IF ok THEN @ + 1 ELSE @]
                    /\ IF ok
                         THEN /\ cache' = c1
                              /\ file' = save_cache(c1)
                              /\ delivered' = delivered \cup {entry_id}
                         ELSE UNCHANGED <<cache, file, delivered>>
                    /\ idx' = idx + 1
                    /\ UNCHANGED <<pc, new_entries>>
  /\ UNCHANGED <<feed, published, prev>>
  /\ UNCHANGED <<config, send, store, soup, req>>

\* check_feed, lines 149-153: after the loop, set last_entry_id and save.
Finish ==
  /\ pc = "loop"
  /\ idx > Len(new_entries)
  /\ LET c1 == SetLastEntryId(cache, new_entries)
     IN  /\ file' = save_cache(c1)
         /\ run' = [run EXCEPT !.writes = @ + 1]
  /\ pc' = "idle"
  /\ cache' = EmptyCache
  /\ new_entries' = <<>>
  /\ idx' = 1
  /\ UNCHANGED <<feed, published, delivered, prev>>
  /\ UNCHANGED <<config, send, store, soup, req>>

Next == Publish \/ ConfigError \/ Start \/ SendEntry \/ Finish

Spec == Init /\ [][Next]_vars

(***************************************************************************)
(* send_telegram_message taken alone: one call on a text of any length up  *)
(* to MaxChunks full chunks, each POST answered with any status.           *)
(***************************************************************************)

SendInit ==
  /\ MainIdle
  /\ config = GoodConfig
  /\ store = Off
  /\ soup = Off
  /\ req = Off
  /\ \E len \in Lengths : send = [SendIdle EXCEPT !.len = len, !.pc = "call"]

\* Lines 53-67: one iteration of the chunk loop.
PostChunk ==
  /\ send.pc = "call"
  /\ NeedsSplit(send.len)
  /\ send.i < send.len
  /\ \E status \in PostStatuses :
       LET posted == [send EXCEPT !.posts = Append(@, Chunk(send.len, send.i)),
                                  !.statuses = Append(@, status)]
       IN  send' = IF Failed(status)
                     THEN [posted EXCEPT !.pc = "raised"]
                     ELSE [posted EXCEPT !.i = NextOffset(send.i),
                                         !.pc = IF NextOffset(send.i) < send.len
                                                  THEN "call" ELSE "done"]
  /\ UNCHANGED <<mainVars, store, soup, req>>

\* Lines 69-80: the text fits one message.
PostWhole ==
  /\ send.pc = "call"
  /\ ~NeedsSplit(send.len)
  /\ \E status \in PostStatuses :
       send' = [send EXCEPT !.posts = Append(@, [from |-> 0, to |-> send.len]),
                            !.statuses = Append(@, status),
                            !.pc = IF Failed(status) THEN "raised" ELSE "done"]
  /\ UNCHANGED <<mainVars, store, soup, req>>

SendNext == PostChunk \/ PostWhole

SpecSend == SendInit /\ [][SendNext]_vars

(***************************************************************************)
(* save_cache and load_cache taken alone, over any cache file: a save that *)
(* runs to its end or is cut short by the end of the process, then a load  *)
(* and the reads check_feed makes of the loaded dict.                      *)
(***************************************************************************)

\* What the cache-store steps leave alone.
storeFrame == <<feed, published, pc, new_entries, idx, delivered, run, prev, config, send,
                soup, req>>

CacheInit ==
  /\ RunIdle
  /\ config = GoodConfig
  /\ send = Off
  /\ soup = Off
  /\ req = Off
  /\ cache = EmptyCache
  /\ file \in InitialFiles
  /\ store = [StoreIdle EXCEPT !.pc = "idle"]

\* save_cache, line 40: open(CACHE_FILE_PATH, 'w') creates or empties the file.
SaveOpen ==
  /\ store.pc = "idle"
  /\ ~store.saved /\ ~store.crashed
  /\ \E x \in ValidRecords :
       store' = [store EXCEPT !.pc = "writing", !.pending = x, !.old = file]
  /\ file' = Invalid
  /\ UNCHANGED <<cache, storeFrame>>

\* save_cache, line 41: json.dump writes the next line of the document.
SaveWrite ==
  /\ store.pc = "writing"
  /\ Len(file.text) < Len(json_dump(store.pending))
  /\ file' = [file EXCEPT !.text = Append(@, json_dump(store.pending)[Len(@) + 1])]
  /\ UNCHANGED <<cache, store, storeFrame>>

\* save_cache, lines 41-43: the document is written, the file is closed.
SaveClose ==
  /\ store.pc = "writing"
  /\ Len(file.text) = Len(json_dump(store.pending))
  /\ store' = [store EXCEPT !.pc = "idle", !.saved = TRUE]
  /\ UNCHANGED <<file, cache, storeFrame>>

\* The process ends inside save_cache; the file stays as written so far.
Crash ==
  /\ store.pc = "writing"
  /\ store' = [store EXCEPT !.pc = "idle", !.crashed = TRUE]
  /\ UNCHANGED <<file, cache, storeFrame>>

\* load_cache, lines 23-36, called by the next process.
LoadCache ==
  /\ store.pc = "idle"
  /\ IF LoadRaises(file)
       THEN /\ store' = [store EXCEPT !.pc = "done", !.from = file,
                                      !.raised = "UnicodeDecodeError"]
            /\ UNCHANGED cache
       ELSE /\ store' = [store EXCEPT !.pc = "loaded", !.from = file]
            /\ cache' = load_cache(file)
  /\ UNCHANGED <<file, storeFrame>>

\* check_feed, lines 90-94 and 115: the reads of the loaded dict in a run
\* that parses at least one entry.
ReadFields ==
  /\ store.pc = "loaded"
  /\ store' = [store EXCEPT !.pc = "done",
                            !.raised = IF HeaderReadRaises(cache)
                                            \/ DiffReadRaises(cache, <<1>>)
                                         THEN "KeyError" ELSE ""]
  /\ UNCHANGED <<file, cache, storeFrame>>

CacheNext == SaveOpen \/ SaveWrite \/ SaveClose \/ Crash \/ LoadCache \/ ReadFields

SpecCache == CacheInit /\ [][CacheNext]_vars

(***************************************************************************)
(* The request headers of check_feed taken alone, for any loaded record    *)
(* and either value of BYPASS_CACHE_CHECK.                                 *)
(***************************************************************************)

HeadersInit ==
  /\ RunIdle
  /\ config = GoodConfig
  /\ send = Off
  /\ store = Off
  /\ soup = Off
  /\ file = Missing
  /\ cache \in ValidRecords
  /\ \E bypass \in BOOLEAN : req = [ReqIdle EXCEPT !.pc = "call", !.bypass = bypass]

\* check_feed, lines 87-96: build the headers and send the request.
BuildHeaders ==
  /\ req.pc = "call"
  /\ req' = [req EXCEPT !.pc = "sent", !.headers = RequestHeaders(cache, req.bypass)]
  /\ UNCHANGED <<mainVars, send, store, soup>>

HeadersNext == BuildHeaders

SpecHeaders == HeadersInit /\ [][HeadersNext]_vars

(***************************************************************************)
(* The sanitizing of one description taken alone (check_feed, lines        *)
(* 129-137): the parser builds the tree node by node, find_all() lists the *)
(* elements, the loop decomposes those that are not supported, prettify    *)
(* serializes what is left.                                                *)
(***************************************************************************)

SanitizeInit ==
  /\ MainIdle
  /\ config = GoodConfig
  /\ send = Off
  /\ store = Off
  /\ req = Off
  /\ \E d \in Descriptions : soup = [SoupIdle EXCEPT !.pc = "parse", !.description = d]

\* BeautifulSoup(description, 'html.parser') (line 130): the next node of
\* the document, put under the soup, the node before it or one of that
\* node's ancestors; a string holds no node.  A description that is not
\* empty can hold no node at all (a stray end tag).
AddNode ==
  /\ soup.pc = "parse"
  /\ HasDescription(soup.description)
  /\ Len(soup.tag) < MaxNodes
  /\ \E t \in Tags :
       \E p \in 0..Len(soup.tag) :
         /\ p # 0 => soup.tag[p] # Text
         /\ p # 0 => (p = Len(soup.tag) \/ p \in Ancestors(soup.parent, Len(soup.tag)))
         /\ soup' = [soup EXCEPT !.tag = Append(@, t), !.parent = Append(@, p),
                                  !.alive = @ \cup {Len(soup.tag) + 1}]
  /\ UNCHANGED <<mainVars, send, store, req>>

\* Lines 129-132: the description is not empty; list its elements.
FindAll ==
  /\ soup.pc = "parse"
  /\ HasDescription(soup.description)
  /\ soup' = [soup EXCEPT !.pc = "loop", !.list = find_all(soup), !.k = 1]
  /\ UNCHANGED <<mainVars, send, store, req>>

\* Lines 132-134: one iteration of the loop over the listed elements.
Visit ==
  /\ soup.pc = "loop"
  /\ soup.k <= Len(soup.list)
  /\ LET n == soup.list[soup.k]
         s1 == IF TagName(soup, n) \notin supported_tags THEN decompose(soup, n) ELSE soup
     IN  soup' = [s1 EXCEPT !.k = @ + 1]
  /\ UNCHANGED <<mainVars, send, store, req>>

\* Line 135: description_text = soup.prettify()
Prettify ==
  /\ soup.pc = "loop"
  /\ soup.k > Len(soup.list)
  /\ soup' = [soup EXCEPT !.pc = "done", !.out = prettify(soup)]
  /\ UNCHANGED <<mainVars, send, store, req>>

\* Lines 136-137: no description, or an empty one, is replaced by the fixed
\* text.
Fallback ==
  /\ soup.pc = "parse"
  /\ ~HasDescription(soup.description)
  /\ soup' = [soup EXCEPT !.pc = "done", !.out = NoDescription]
  /\ UNCHANGED <<mainVars, send, store, req>>

SanitizeNext == AddNode \/ FindAll \/ Visit \/ Prettify \/ Fallback

SpecSanitize == SanitizeInit /\ [][SanitizeNext]_vars

(***************************************************************************)
(* Vocabulary of the properties.                                           *)
(***************************************************************************)

\* The set of elements of a sequence.
Range(s) == {s[i] : i \in 1..Len(s)}

\* The position of e in s (s holds e once).
Pos(s, e) == CHOOSE i \in 1..Len(s) : s[i] = e

\* The cache file has a line for the key.
HasLine(f, key) == f.exists /\ \E i \in 1..Len(f.text) : f.text[i].key = key

\* The line of the cache file for the key.
LineOf(f, key) == f.text[CHOOSE i \in 1..Len(f.text) : f.text[i].key = key]

\* The last-seen entry id the cache file holds, blank when it holds none.
LastSeen(f) == IF HasLine(f, "last_entry_id") THEN LineOf(f, "last_entry_id").id ELSE NoId

\* The etag and the modified value the cache file holds.
EtagIn(f) == IF HasLine(f, "etag") THEN LineOf(f, "etag").str ELSE ""

ModifiedIn(f) == IF HasLine(f, "modified") THEN LineOf(f, "modified").str ELSE ""

\* Every send of the run returned.
AllOk(r) == \A i \in 1..Len(r.ok) : r.ok[i]

\* The run has returned.
RunDone == pc = "idle" /\ run.status # 0

\* The run and the one before it both got a 200 with the same entries.
SameFeedTwice == prev.status = 200 /\ run.status = 200 /\ prev.entries = run.entries

\* The entry of S that comes first (is newest) in the feed order of entries.
NewestOf(entries, S) == CHOOSE e \in S : \A f \in S : Pos(entries, e) <= Pos(entries, f)

\* The parsed entries whose id differs from the last-seen id the run loaded.
Unseen(r) == {e \in Range(r.entries) : e # r.loaded}

(***************************************************************************)
(* C1: against an unchanged feed (200 each time), after a run in which     *)
(* every send succeeded the next run sends no message.                     *)
(***************************************************************************)
C1_NoResendOnUnchangedFeed ==
  (SameFeedTwice /\ prev.failed = {}) => run.sent = <<>>

(***************************************************************************)
(* C2: the persisted last-seen id never regresses: no step replaces the    *)
(* id of a feed entry by the id of an entry older in feed order.           *)
(***************************************************************************)
C2_LastSeenNeverRegresses ==
  [][\A a, b \in Range(feed) :
       (LastSeen(file) = a /\ LastSeen(file') = b) => Pos(feed, b) <= Pos(feed, a)]_vars

(***************************************************************************)
(* C3: a run that finds new entries and delivers all of them leaves in the *)
(* cache file the id of the delivered entry that is newest in feed order.  *)
(***************************************************************************)
C3_NewestDeliveredIsLastSeen ==
  (RunDone /\ run.sent # <<>> /\ AllOk(run))
    => LastSeen(file) = NewestOf(run.entries, Range(run.sent))

(***************************************************************************)
(* C4: the entries a run sends are parsed entries whose id differs from    *)
(* the loaded last-seen id, sent oldest first (strictly decreasing feed    *)
(* position, hence each at most once), and when the run returns they are   *)
(* all of those entries.                                                   *)
(***************************************************************************)
C4_SendsUnseenOldestFirst ==
  /\ Range(run.sent) \subseteq Unseen(run)
  /\ \A i, j \in 1..Len(run.sent) :
       i < j => Pos(run.entries, run.sent[i]) > Pos(run.entries, run.sent[j])
  /\ (RunDone /\ run.parsed) => Range(run.sent) = Unseen(run)

(***************************************************************************)
(* C5: once a send fails, the run sends no further entry: a failed send is *)
(* the last send of its run.                                               *)
(***************************************************************************)
C5_StopsAtFailedSend ==
  \A i \in 1..Len(run.ok) : ~run.ok[i] => i = Len(run.sent)

(***************************************************************************)
(* C6: the persisted last-seen id is blank or the id of an entry whose     *)
(* send succeeded.                                                         *)
(***************************************************************************)
C6_LastSeenWasDelivered ==
  LastSeen(file) = NoId \/ LastSeen(file) \in delivered

(***************************************************************************)
(* C7: between a successful send and the next send the cache file's        *)
(* last-seen id is the id of the entry just sent.                          *)
(***************************************************************************)
C7_LastSeenFollowsEachSend ==
  (pc = "loop" /\ run.sent # <<>> /\ run.ok[Len(run.ok)])
    => LastSeen(file) = run.sent[Len(run.sent)]

(***************************************************************************)
(* C8: an entry whose send failed in one run is sent in the next run       *)
(* against the same feed when that run's sends succeed, unless an earlier  *)
(* run had already delivered it.                                           *)
(***************************************************************************)
C8_FailedEntryIsRetried ==
  (RunDone /\ SameFeedTwice /\ AllOk(run))
    => \A e \in prev.failed : e \in Range(run.sent) \/ e \in delivered

(***************************************************************************)
(* C9: a run whose fetch returns 304 returns at once: nothing parsed, no   *)
(* message sent, no cache write, the cache file as it was.                 *)
(***************************************************************************)
C9_NotModifiedLeavesAllAlone ==
  run.status = 304
    => /\ pc = "idle"
       /\ ~run.parsed
       /\ run.sent = <<>>
       /\ run.writes = 0
       /\ file = run.startFile

\* A 304 whose body holds entries the cache has not seen, over a saved cache.
C9_Witness ==
  /\ run.status = 304
  /\ file.exists
  /\ LastSeen(file) # NoId
  /\ Unseen(run) # {}

(***************************************************************************)
(* C10: a 200 run whose etag or last-modified header differs from the      *)
(* cached validator and that finds no new entry still writes the cache:    *)
(* afterwards the file holds the validators of the response.               *)
(***************************************************************************)
C10_ValidatorsSavedWithoutNewEntries ==
  LET changed == \/ (run.etag # Absent /\ run.etag # EtagIn(run.startFile))
                 \/ (run.modified # Absent /\ run.modified # ModifiedIn(run.startFile))
  IN  (RunDone /\ run.status = 200 /\ Unseen(run) = {} /\ changed)
        => /\ file.exists
           /\ run.etag # Absent => EtagIn(file) = run.etag
           /\ run.modified # Absent => ModifiedIn(file) = run.modified

(***************************************************************************)
(* C11: a run whose fetch returns a status other than 200 or 304 aborts:   *)
(* the body is not parsed as a feed, no message is sent and the cache file *)
(* is not written.                                                         *)
(***************************************************************************)
C11_OtherStatusAborts ==
  run.status \notin {0, 200, 304}
    => /\ ~run.parsed
       /\ run.sent = <<>>
       /\ run.writes = 0
       /\ file = run.startFile

(***************************************************************************)
(* C12: a call of send_telegram_message whose POSTs all succeed makes one  *)
(* POST with the whole text when the text has at most 4096 characters, and *)
(* otherwise ceil(L/4096) POSTs of at most 4096 characters each that, in   *)
(* the order sent, follow one another through the text from its first      *)
(* character to its last.                                                  *)
(***************************************************************************)
C12_ChunksCoverTheText ==
  send.pc = "done"
    => LET n == Len(send.posts)
       IN  IF send.len <= MAX_MESSAGE_LENGTH
             THEN send.posts = <<[from |-> 0, to |-> send.len]>>
             ELSE /\ n = (send.len + MAX_MESSAGE_LENGTH - 1) \div MAX_MESSAGE_LENGTH
                  /\ send.posts[1].from = 0
                  /\ send.posts[n].to = send.len
                  /\ \A j \in 1..(n - 1) : send.posts[j].to = send.posts[j + 1].from
                  /\ \A j \in 1..n :
                       /\ send.posts[j].from < send.posts[j].to
                       /\ send.posts[j].to - send.posts[j].from <= MAX_MESSAGE_LENGTH

\* A finished call that sent three chunks, the last one shorter.
C12_Witness ==
  /\ send.pc = "done"
  /\ Len(send.posts) = 3
  /\ send.len % MAX_MESSAGE_LENGTH # 0

(***************************************************************************)
(* C13: on an oversized text, a POST answered with a status other than 200 *)
(* is the last POST of the call and the call raises; the POSTs made are    *)
(* the chunks 1..k of the text, each once, all before the k-th answered    *)
(* 200.                                                                    *)
(***************************************************************************)
C13_FailedChunkEndsTheCall ==
  send.len > MAX_MESSAGE_LENGTH
    => \A k \in 1..Len(send.statuses) :
         send.statuses[k] # 200
           => /\ k = Len(send.posts)
              /\ send.pc = "raised"
              /\ \A m \in 1..(k - 1) : send.statuses[m] = 200
              /\ \A m \in 1..k :
                   /\ send.posts[m].from = (m - 1) * MAX_MESSAGE_LENGTH
                   /\ send.posts[m].to =
                        IF m * MAX_MESSAGE_LENGTH < send.len
                          THEN m * MAX_MESSAGE_LENGTH ELSE send.len

\* The second of three chunks was refused.
C13_Witness ==
  /\ send.pc = "raised"
  /\ Len(send.posts) = 2
  /\ send.len > 2 * MAX_MESSAGE_LENGTH

(***************************************************************************)
(* C18: a process started with any of the three settings missing or empty  *)
(* fails with the configuration error and does nothing else: no fetch, no  *)
(* POST, no read or write of the cache file.                               *)
(***************************************************************************)
C18_MissingSettingStopsAtStartup ==
  (\E s \in Settings : config[s] \in {Unset, ""})
    => /\ pc = "idle"
       /\ run.status = 0
       /\ run.raised \in {"", "ValueError"}
       /\ run.sent = <<>>
       /\ run.writes = 0
       /\ cache = EmptyCache
       /\ file = Missing

\* The process was started with the chat id set to the empty string only.
C18_Witness ==
  /\ run.raised = "ValueError"
  /\ config["TELEGRAM_CHAT_ID"] = ""
  /\ config["TELEGRAM_BOT_TOKEN"] = "x"
  /\ config["RSS_FEED_URL"] = "x"
  /\ feed # <<>>

\* The cache file holds a complete document: it opens and closes.
Complete(f) ==
  /\ f.exists
  /\ Len(f.text) >= 2
  /\ f.text[1].key = "{"
  /\ f.text[Len(f.text)].key = "}"

\* The cache file holds a valid cache record: a complete document with the
\* three keys.
HoldsRecord(f) == Complete(f) /\ \A k \in CacheKeys : HasLine(f, k)

\* The dict is the empty record: the three keys, all blank, and no other key.
IsEmptyRecord(c) ==
  /\ {c.keys[i] : i \in 1..Len(c.keys)} = {RecordKey(k) : k \in CacheKeys}
  /\ c.etag = "" /\ c.modified = "" /\ c.last_entry_id = NoId

(***************************************************************************)
(* C14: load_cache on a missing cache file, or on one whose content is not *)
(* a valid cache record, returns the empty record and does not raise, and  *)
(* the reads of the three fields that follow do not raise either.          *)
(***************************************************************************)
C14_LoadFallsBackToEmptyRecord ==
  (store.pc \in {"loaded", "done"} /\ ~HoldsRecord(store.from))
    => /\ store.raised = ""
       /\ IsEmptyRecord(cache)

(***************************************************************************)
(* C15: save_cache(x) followed by load_cache() returns x, for every valid  *)
(* cache record x.                                                         *)
(***************************************************************************)
C15_SaveThenLoadRoundTrip ==
  (store.saved /\ store.pc \in {"loaded", "done"}) => cache = store.pending

\* A record with validators, a last-seen id and two entry-id keys, the
\* greater id added first, was saved over an older file and loaded back.
C15_Witness ==
  /\ store.saved
  /\ store.pc = "loaded"
  /\ store.old.exists
  /\ store.pending.etag # "" /\ store.pending.modified # ""
  /\ store.pending.last_entry_id # NoId
  /\ \E i \in 1..(Len(store.pending.keys) - 1) :
       /\ store.pending.keys[i].key = "entry"
       /\ store.pending.keys[i].id > store.pending.keys[i + 1].id

(***************************************************************************)
(* C16: when the process ends inside save_cache, the cache file holds      *)
(* either the complete previous record or the complete new record.         *)
(***************************************************************************)
C16_CrashLeavesOldOrNewRecord ==
  (store.crashed /\ HoldsRecord(store.old))
    => (file = store.old \/ (Complete(file) /\ file.text = json_dump(store.pending)))

(***************************************************************************)
(* C19: the persisted cache record has exactly the three keys etag,        *)
(* modified and last_entry_id.                                             *)
(***************************************************************************)
C19_RecordHasThreeKeys ==
  file.exists
    => /\ \A k \in CacheKeys : HasLine(file, k)
       /\ \A i \in 1..Len(file.text) : file.text[i].key \in CacheKeys \cup {"{", "}"}

\* The nodes of the description that are not inside an element whose tag is
\* not allowed, and are not such an element themselves.
Retained(s) ==
  {i \in 1..Len(s.tag) :
     /\ s.tag[i] \in {"b", "i", "a", Text}
     /\ \A a \in Ancestors(s.parent, i) : s.tag[a] \in {"b", "i", "a"}}

RECURSIVE Ascending(_)
\* The numbers of a set, smallest first.
Ascending(S) ==
  IF S = {} THEN <<>>
  ELSE LET m == CHOOSE x \in S : \A y \in S : x <= y IN <<m>> \o Ascending(S \ {m})

\* The nodes the serialized document opens or holds as strings, in order.
NodesOf(out) ==
  LET kept == SelectSeq(out, LAMBDA t : t.kind # "close")
  IN  [i \in 1..Len(kept) |-> kept[i].node]

(***************************************************************************)
(* C17: the sanitizing step removes every element whose tag is not b, i or *)
(* a together with all it holds, and keeps everything else in document     *)
(* order, so every tag of the sanitized body is b, i or a.                 *)
(***************************************************************************)
C17_OnlyAllowedTagsRemain ==
  soup.pc = "done"
    => /\ \A j \in 1..Len(soup.out) :
            soup.out[j].kind # "text" => soup.out[j].tag \in {"b", "i", "a"}
       /\ soup.description \notin {None, ""}
            => NodesOf(soup.out) = Ascending(Retained(soup))
       /\ \A i \in Retained(soup) :
            soup.tag[i] # Text
              => \E j, m \in 1..Len(soup.out) :
                   /\ j < m
                   /\ soup.out[j] = Token("open", soup.tag[i], i)
                   /\ soup.out[m] = Token("close", soup.tag[i], i)
                   /\ \A d \in 1..Len(soup.out) :
                        (j < d /\ d < m) <=> (soup.out[d].node \in Subtree(soup.parent, i) \ {i})

\* A description with text inside an allowed element inside an element that
\* is not allowed, and a string after it that stays.
C17_Witness ==
  /\ soup.pc = "done"
  /\ \E i, j, m, n \in 1..Len(soup.tag) :
       /\ soup.tag[i] = "p"
       /\ soup.parent[j] = i /\ soup.tag[j] \in {"b", "a"}
       /\ soup.parent[m] = j /\ soup.tag[m] = Text
       /\ n > m /\ soup.parent[n] = 0 /\ soup.tag[n] = Text

(***************************************************************************)
(* C20: with BYPASS_CACHE_CHECK false the feed request carries             *)
(* If-None-Match exactly when the loaded etag is not blank, with that      *)
(* value, and If-Modified-Since exactly when the loaded modified value is  *)
(* not blank, with that value; with BYPASS_CACHE_CHECK true it carries     *)
(* neither.                                                                *)
(***************************************************************************)
C20_ConditionalHeadersFollowCache ==
  req.pc = "sent"
    => IF req.bypass
         THEN req.headers.if_none_match = Absent /\ req.headers.if_modified_since = Absent
         ELSE /\ (cache.etag = "" <=> req.headers.if_none_match = Absent)
              /\ (cache.etag # "" => req.headers.if_none_match = cache.etag)
              /\ (cache.modified = "" <=> req.headers.if_modified_since = Absent)
              /\ (cache.modified # "" => req.headers.if_modified_since = cache.modified)

\* Conditional mode, a record with an etag and no modified value.
C20_Witness ==
  /\ req.pc = "sent"
  /\ ~req.bypass
  /\ cache.etag # ""
  /\ cache.modified = ""
  /\ req.headers.if_none_match = cache.etag

====
